---- MODULE Spec2Model ----
(***************************************************************************)
(* Multi-Model Medical Prompt Generator (src/prompt_generator.py).         *)
(*                                                                         *)
(* The script is modelled as it executes, top to bottom: the registry of   *)
(* tokenizers and models is loaded, the input widgets are read, and when   *)
(* the "Generate Prompts" button is pressed the handler runs every         *)
(* registered model, scores the outputs and shows the best one.            *)
(*                                                                         *)
(* Text is a sequence of one-character strings.  The fixed sentences of    *)
(* the instruction template are single atoms of such a sequence.           *)
(***************************************************************************)
EXTENDS Integers, Sequences, FiniteSets, TLC

VARIABLES
    pc,                \* position of the script
    model_tokenizers,  \* dict name -> tokenizer, as a sequence of <<key, value>>
    model_objects,     \* dict name -> model, as a sequence of <<key, value>>
    idx,               \* position of the running for loop / comprehension
    request,           \* values of the input widgets
    model_name,        \* loop variable of the handler
    base_prompt,       \* instruction built by the running call
    builds,            \* number of times lines 18-23 ran in this comparison
    gen_calls,         \* the model.generate calls made: <<model_name, instruction>>
    results,           \* dict name -> generated text
    model_scores,      \* dict name -> final_score
    length_scores,     \* list
    clarity_scores,    \* list
    best_model,
    best_prompt,
    exc,               \* the exception caught by the handler
    shown,             \* what the page shows for this run
    failed_earlier,    \* an earlier run of the handler ended in st.error
    prompt,            \* argument of evaluate_prompt (scoring specification)
    scores,            \* its result
    rescored           \* the result of evaluating the same text again

vars == <<pc, model_tokenizers, model_objects, idx, request, model_name,
          base_prompt, builds, gen_calls, results, model_scores,
          length_scores, clarity_scores, best_model, best_prompt, exc, shown,
          failed_earlier, prompt, scores, rescored>>

None == "None"

----------------------------------------------------------------------------
(* Bounds *)

MaxFieldLen == 1   \* longest condition / details text
MaxOutLen == 4     \* longest decoded text of a model, before strip()
MaxTextLen == 6    \* longest text given to evaluate_prompt on its own

----------------------------------------------------------------------------
(* Text *)

Whitespace == {" ", "\t", "\n", "\r"}

SeqsUpTo(S, n) == UNION {[1..k -> S] : k \in 0..n}

FieldChars == {" ", "c"}
OutChars == {" ", "a"}
TextChars == {" ", "\n", "a"}

RECURSIVE lstrip(_)
lstrip(s) ==
    IF s = <<>> THEN <<>>
    ELSE IF Head(s) \in Whitespace THEN lstrip(Tail(s)) ELSE s

RECURSIVE rstrip(_)
rstrip(s) ==
    IF s = <<>> THEN <<>>
    ELSE IF s[Len(s)] \in Whitespace THEN rstrip(SubSeq(s, 1, Len(s) - 1)) ELSE s

strip(s) == rstrip(lstrip(s))

\* str.split() with no argument: runs of whitespace separate the words and
\* no empty word is produced.  cur is the word being read, acc the words read.
RECURSIVE split_from(_, _, _)
split_from(s, cur, acc) ==
    IF s = <<>> THEN (IF cur = <<>> THEN acc ELSE Append(acc, cur))
    ELSE IF Head(s) \in Whitespace
         THEN split_from(Tail(s), <<>>, IF cur = <<>> THEN acc ELSE Append(acc, cur))
         ELSE split_from(Tail(s), Append(cur, Head(s)), acc)

split(s) == split_from(s, <<>>, <<>>)

----------------------------------------------------------------------------
(* Dictionaries keep their insertion order: a sequence of <<key, value>>. *)

Keys(d) == [i \in 1..Len(d) |-> d[i][1]]
KeySet(d) == {d[i][1] : i \in 1..Len(d)}
Values(d) == [i \in 1..Len(d) |-> d[i][2]]
Get(d, k) == d[CHOOSE i \in 1..Len(d) : d[i][1] = k][2]

DictSet(d, k, v) ==
    IF k \in KeySet(d)
    THEN [i \in 1..Len(d) |-> IF d[i][1] = k THEN <<k, v>> ELSE d[i]]
    ELSE Append(d, <<k, v>>)

----------------------------------------------------------------------------
(* The registry *)

models == << <<"DistilGPT-2", "distilgpt2">>,
             <<"GPT-Neo-125M", "EleutherAI/gpt-neo-125M">> >>

EosToken == "<|endoftext|>"
PadTokens == {None, "[PAD]"}

\* AutoTokenizer.from_pretrained: both registered tokenizers are GPT-2
\* tokenizers, which have an end-of-sequence token; the padding token is
\* whatever the pretrained files set.  pretrained_pad records it.
FromPretrainedTokenizer(model_path) ==
    {[path |-> model_path, pad_token |-> p, eos_token |-> EosToken,
      pretrained_pad |-> p] : p \in PadTokens}

\* Variant: the end-of-sequence token is assigned whatever the padding token is.
EnsurePadToken_always(tokenizer) ==
    [tokenizer EXCEPT !.pad_token = tokenizer.eos_token]

EnsurePadToken(tokenizer) ==
    IF tokenizer.pad_token = None
    THEN [tokenizer EXCEPT !.pad_token = tokenizer.eos_token]
    ELSE tokenizer

FromPretrainedModel(model_path) == [path |-> model_path, device |-> "cpu"]

----------------------------------------------------------------------------
(* The instruction template *)

Modalities == {"MRI", "CT", "X-ray", "Ultrasound"}
Descriptions == {<<>>, <<"b">>}

BaseA == "Generate a "
BaseB == " scan of "
BaseC == ". Focus on the medical imaging context only."
CondA == " Focus on capturing "
DetA == " Include details such as "
Dot == "."
Closing == " Avoid any extra information, references, or irrelevant content. Keep the prompt focused only on the image generation task."

Requests ==
    [description : Descriptions, modality : Modalities,
     condition : SeqsUpTo(FieldChars, MaxFieldLen),
     details : SeqsUpTo(FieldChars, MaxFieldLen)]

\* A str is true when it is not empty.
Truthy(s) == s # <<>>

\* Variant: the instruction mentions the model it is built for.
build_base_prompt_named(name, description, modality, condition, details) ==
    <<BaseA, modality, BaseB>> \o description \o <<" with ", name, BaseC>>
      \o (IF Truthy(condition) THEN <<CondA>> \o condition \o <<Dot>> ELSE <<>>)
      \o (IF Truthy(details) THEN <<DetA>> \o details \o <<Dot>> ELSE <<>>)
      \o <<Closing>>

build_base_prompt(name, description, modality, condition, details) ==
    <<BaseA, modality, BaseB>> \o description \o <<BaseC>>
      \o (IF Truthy(condition) THEN <<CondA>> \o condition \o <<Dot>> ELSE <<>>)
      \o (IF Truthy(details) THEN <<DetA>> \o details \o <<Dot>> ELSE <<>>)
      \o <<Closing>>

----------------------------------------------------------------------------
(* Scoring *)

\* Variant: words of three characters count as clear.
evaluate_prompt_ge3(text) ==
    LET words == split(text)
        length_score == Len(words)
        clarity_score == Len(SelectSeq(words, LAMBDA word : Len(word) >= 3))
        final_score == length_score + clarity_score
    IN  <<length_score, clarity_score, final_score>>

evaluate_prompt(text) ==
    LET words == split(text)
        length_score == Len(words)
        clarity_score == Len(SelectSeq(words, LAMBDA word : Len(word) > 3))
        final_score == length_score + clarity_score
    IN  <<length_score, clarity_score, final_score>>

\* Variant: a later key replaces the current one when greater or equal.
RECURSIVE max_from_last(_, _, _)
max_from_last(d, i, best) ==
    IF i > Len(d) THEN best
    ELSE max_from_last(d, i + 1, IF d[i][2] >= Get(d, best) THEN d[i][1] ELSE best)

\* max(d, key=d.get): the first key, in iteration order, that no other key
\* beats; a later key replaces the current one only when strictly greater.
RECURSIVE max_from(_, _, _)
max_from(d, i, best) ==
    IF i > Len(d) THEN best
    ELSE max_from(d, i + 1, IF d[i][2] > Get(d, best) THEN d[i][1] ELSE best)

max_by_value(d) == max_from(d, 2, d[1][1])

----------------------------------------------------------------------------
(* The script *)

\* Variants: the loop misses the first key; the loop runs in reverse order.
models_keys_short == Tail(Keys(models))
models_keys_reversed == [i \in 1..Len(models) |-> models[Len(models) + 1 - i][1]]

\* Iteration order of models.keys() / models.items()
models_keys == Keys(models)

ErrorTexts == {"CUDA out of memory", "index out of range in self"}

NothingShown ==
    [kind |-> "none", best_model |-> None, best_prompt |-> <<>>,
     entries |-> <<>>, message |-> <<>>]

\* The state of a fresh run of the script; failed_earlier and the scoring
\* variables are set by the caller.
FreshRun ==
    /\ pc = "load_tokenizers"
    /\ model_tokenizers = <<>>
    /\ model_objects = <<>>
    /\ idx = 1
    /\ request = None
    /\ model_name = None
    /\ base_prompt = <<>>
    /\ builds = 0
    /\ gen_calls = <<>>
    /\ results = <<>>
    /\ model_scores = <<>>
    /\ length_scores = <<>>
    /\ clarity_scores = <<>>
    /\ best_model = None
    /\ best_prompt = <<>>
    /\ exc = None
    /\ shown = NothingShown

Init ==
    /\ FreshRun
    /\ failed_earlier = FALSE
    /\ prompt = <<>>
    /\ scores = <<>>
    /\ rescored = <<>>

handlerVars == <<request, model_name, base_prompt, builds, gen_calls, results,
                 model_scores, length_scores, clarity_scores, best_model,
                 best_prompt, exc, shown>>
scoreVars == <<prompt, scores, rescored>>

\* Line 10: the comprehension loads one tokenizer per entry of models.
LoadTokenizer ==
    /\ pc = "load_tokenizers"
    /\ idx <= Len(models)
    /\ \E tokenizer \in FromPretrainedTokenizer(models[idx][2]) :
          model_tokenizers' = DictSet(model_tokenizers, models[idx][1], tokenizer)
    /\ idx' = IF idx = Len(models) THEN 1 ELSE idx + 1
    /\ pc' = IF idx = Len(models) THEN "pad_tokens" ELSE "load_tokenizers"
    /\ UNCHANGED <<model_objects, handlerVars, failed_earlier, scoreVars>>

\* Line 10: from_pretrained raises; nothing catches it and the run stops.
LoadTokenizerFail ==
    /\ pc = "load_tokenizers"
    /\ idx <= Len(models)
    /\ pc' = "crashed"
    /\ UNCHANGED <<model_tokenizers, model_objects, idx, handlerVars,
                   failed_earlier, scoreVars>>

\* Lines 12-14: one iteration of the loop over model_tokenizers.values().
SetPadToken ==
    /\ pc = "pad_tokens"
    /\ idx <= Len(model_tokenizers)
    /\ model_tokenizers' =
          [model_tokenizers EXCEPT ![idx] =
              <<model_tokenizers[idx][1], EnsurePadToken(model_tokenizers[idx][2])>>]
    /\ idx' = IF idx = Len(model_tokenizers) THEN 1 ELSE idx + 1
    /\ pc' = IF idx = Len(model_tokenizers) THEN "load_models" ELSE "pad_tokens"
    /\ UNCHANGED <<model_objects, handlerVars, failed_earlier, scoreVars>>

\* Line 15: the comprehension loads one model per entry of models.
LoadModel ==
    /\ pc = "load_models"
    /\ idx <= Len(models)
    /\ model_objects' =
          DictSet(model_objects, models[idx][1], FromPretrainedModel(models[idx][2]))
    /\ idx' = IF idx = Len(models) THEN 1 ELSE idx + 1
    /\ pc' = IF idx = Len(models) THEN "inputs" ELSE "load_models"
    /\ UNCHANGED <<model_tokenizers, handlerVars, failed_earlier, scoreVars>>

\* Variant: a model that fails to load is left out and loading goes on.
LoadModelFail_skip ==
    /\ pc = "load_models"
    /\ idx <= Len(models)
    /\ idx' = IF idx = Len(models) THEN 1 ELSE idx + 1
    /\ pc' = IF idx = Len(models) THEN "inputs" ELSE "load_models"
    /\ UNCHANGED <<model_tokenizers, model_objects, handlerVars,
                   failed_earlier, scoreVars>>

LoadModelFail ==
    /\ pc = "load_models"
    /\ idx <= Len(models)
    /\ pc' = "crashed"
    /\ UNCHANGED <<model_tokenizers, model_objects, idx, handlerVars,
                   failed_earlier, scoreVars>>

\* Lines 50-62: the widgets return what the user entered.
ReadInputs ==
    /\ pc = "inputs"
    /\ request' \in Requests
    /\ pc' = "button"
    /\ UNCHANGED <<model_tokenizers, model_objects, idx, model_name,
                   base_prompt, builds, gen_calls, results, model_scores,
                   length_scores, clarity_scores, best_model, best_prompt,
                   exc, shown, failed_earlier, scoreVars>>

\* Line 64, button not pressed: the script goes on to the footer.
ButtonNotPressed ==
    /\ pc = "button"
    /\ pc' = "done"
    /\ UNCHANGED <<model_tokenizers, model_objects, idx, handlerVars,
                   failed_earlier, scoreVars>>

\* Lines 64-70: button pressed, the handler starts with empty collections.
ButtonPressed ==
    /\ pc = "button"
    /\ results' = <<>>
    /\ model_scores' = <<>>
    /\ length_scores' = <<>>
    /\ clarity_scores' = <<>>
    /\ idx' = 1
    /\ pc' = "loop"
    /\ UNCHANGED <<model_tokenizers, model_objects, request, model_name,
                   base_prompt, builds, gen_calls, best_model, best_prompt,
                   exc, shown, failed_earlier, scoreVars>>

\* Lines 72-73 and 17-30: the loop takes the next key, calls
\* generate_prompt_with_model, which builds the instruction, looks the
\* tokenizer and the model up, tokenizes and enters model.generate.
CallGenerate ==
    /\ pc = "loop"
    /\ idx <= Len(models_keys)
    /\ LET name == models_keys[idx]
           text == build_base_prompt(name, request.description, request.modality,
                                     request.condition, request.details)
       IN  /\ name \in KeySet(model_tokenizers)
           /\ name \in KeySet(model_objects)
           /\ model_name' = name
           /\ base_prompt' = text
           /\ builds' = builds + 1
           /\ gen_calls' = Append(gen_calls, <<name, text>>)
    /\ pc' = "generating"
    /\ UNCHANGED <<model_tokenizers, model_objects, idx, request, results,
                   model_scores, length_scores, clarity_scores, best_model,
                   best_prompt, exc, shown, failed_earlier, scoreVars>>

\* Lines 30-39 and 74-78: generate returns some sampled text; it is decoded,
\* stripped, stored and scored, and the loop moves on.
GenerateReturn ==
    /\ pc = "generating"
    /\ \E generated_text \in SeqsUpTo(OutChars, MaxOutLen) :
          LET output == strip(generated_text)
              score == evaluate_prompt(output)
          IN  /\ results' = DictSet(results, model_name, output)
              /\ model_scores' = DictSet(model_scores, model_name, score[3])
              /\ length_scores' = Append(length_scores, score[1])
              /\ clarity_scores' = Append(clarity_scores, score[2])
    /\ idx' = idx + 1
    /\ pc' = "loop"
    /\ UNCHANGED <<model_tokenizers, model_objects, request, model_name,
                   base_prompt, builds, gen_calls, best_model, best_prompt,
                   exc, shown, failed_earlier, scoreVars>>

\* Lines 27-38 raise: control leaves the loop for the except clause.
GenerateRaise ==
    /\ pc = "generating"
    /\ exc' \in ErrorTexts
    /\ pc' = "except"
    /\ UNCHANGED <<model_tokenizers, model_objects, idx, request, model_name,
                   base_prompt, builds, gen_calls, results, model_scores,
                   length_scores, clarity_scores, best_model, best_prompt,
                   shown, failed_earlier, scoreVars>>

\* Lines 81-82, after the loop has run out of keys.
SelectBest ==
    /\ pc = "loop"
    /\ idx > Len(models_keys)
    /\ best_model' = max_by_value(model_scores)
    /\ best_prompt' = Get(results, max_by_value(model_scores))
    /\ pc' = "display"
    /\ UNCHANGED <<model_tokenizers, model_objects, idx, request, model_name,
                   base_prompt, builds, gen_calls, results, model_scores,
                   length_scores, clarity_scores, exc, shown, failed_earlier,
                   scoreVars>>

\* Lines 84-116: the best prompt, the chart and one block per entry of results.
Display ==
    /\ pc = "display"
    /\ shown' = [kind |-> "success", best_model |-> best_model,
                 best_prompt |-> best_prompt,
                 entries |-> [i \in 1..Len(results) |->
                                 <<results[i][1], evaluate_prompt(results[i][2])>>],
                 message |-> <<>>]
    /\ pc' = "done"
    /\ UNCHANGED <<model_tokenizers, model_objects, idx, request, model_name,
                   base_prompt, builds, gen_calls, results, model_scores,
                   length_scores, clarity_scores, best_model, best_prompt, exc,
                   failed_earlier, scoreVars>>

\* Variant: the except clause lets the exception through.
ShowError_reraise ==
    /\ pc = "except"
    /\ failed_earlier' = TRUE
    /\ pc' = "crashed"
    /\ UNCHANGED <<model_tokenizers, model_objects, idx, handlerVars, scoreVars>>

\* Lines 117-118: st.error(f"Error: {e}"), then the footer.
ShowError ==
    /\ pc = "except"
    /\ shown' = [shown EXCEPT !.kind = "error", !.message = <<"Error: ", exc>>]
    /\ failed_earlier' = TRUE
    /\ pc' = "done"
    /\ UNCHANGED <<model_tokenizers, model_objects, idx, request, model_name,
                   base_prompt, builds, gen_calls, results, model_scores,
                   length_scores, clarity_scores, best_model, best_prompt, exc,
                   scoreVars>>

\* The next interaction with the page runs the script again from line 1.
Rerun ==
    /\ pc \in {"done", "crashed"}
    /\ pc' = "load_tokenizers"
    /\ model_tokenizers' = <<>>
    /\ model_objects' = <<>>
    /\ idx' = 1
    /\ request' = None
    /\ model_name' = None
    /\ base_prompt' = <<>>
    /\ builds' = 0
    /\ gen_calls' = <<>>
    /\ results' = <<>>
    /\ model_scores' = <<>>
    /\ length_scores' = <<>>
    /\ clarity_scores' = <<>>
    /\ best_model' = None
    /\ best_prompt' = <<>>
    /\ exc' = None
    /\ shown' = NothingShown
    /\ UNCHANGED <<failed_earlier, scoreVars>>

Next ==
    \/ LoadTokenizer
    \/ LoadTokenizerFail
    \/ SetPadToken
    \/ LoadModel
    \/ LoadModelFail
    \/ ReadInputs
    \/ ButtonNotPressed
    \/ ButtonPressed
    \/ CallGenerate
    \/ GenerateReturn
    \/ GenerateRaise
    \/ SelectBest
    \/ Display
    \/ ShowError
    \/ Rerun

Spec == Init /\ [][Next]_vars

----------------------------------------------------------------------------
(* Scoring on its own: evaluate_prompt applied to any text, twice. *)

ScoreInit ==
    /\ FreshRun
    /\ failed_earlier = FALSE
    /\ prompt \in SeqsUpTo(TextChars, MaxTextLen)
    /\ scores = <<>>
    /\ rescored = <<>>

\* Line 75
Evaluate ==
    /\ scores = <<>>
    /\ scores' = evaluate_prompt(prompt)
    /\ UNCHANGED <<pc, model_tokenizers, model_objects, idx, handlerVars,
                   failed_earlier, prompt, rescored>>

\* Line 103
EvaluateAgain ==
    /\ scores # <<>>
    /\ rescored = <<>>
    /\ rescored' = evaluate_prompt(prompt)
    /\ UNCHANGED <<pc, model_tokenizers, model_objects, idx, handlerVars,
                   failed_earlier, prompt, scores>>

ScoreNext == Evaluate \/ EvaluateAgain

SpecScore == ScoreInit /\ [][ScoreNext]_vars

----------------------------------------------------------------------------
(* Properties *)

RegisteredNames == {models[i][1] : i \in 1..Len(models)}
RegistrationOrder == [i \in 1..Len(models) |-> models[i][1]]
RegistrationIndex(name) == CHOOSE i \in 1..Len(models) : models[i][1] = name

Distinct(seq) == \A i, j \in 1..Len(seq) : seq[i] = seq[j] => i = j
Occurs(text, atom) == \E i \in 1..Len(text) : text[i] = atom
Position(text, atom) == CHOOSE i \in 1..Len(text) : text[i] = atom

\* C1: after a comparison in which every generation succeeded, the best
\* model shown has a final score at least that of every registered model,
\* and among the models with the maximum score it is the first registered.
C1_BestIsFirstMaximum ==
    shown.kind = "success" =>
        /\ shown.best_model \in KeySet(model_scores)
        /\ \A name \in RegisteredNames :
              /\ Get(model_scores, name) <= Get(model_scores, shown.best_model)
              /\ Get(model_scores, name) = Get(model_scores, shown.best_model)
                    => RegistrationIndex(shown.best_model) <= RegistrationIndex(name)
        /\ shown.best_prompt = Get(results, shown.best_model)

\* A comparison shown in which the models tie on a positive maximum.
C1_Witness_TieShown ==
    /\ shown.kind = "success"
    /\ \A name \in RegisteredNames : Get(model_scores, name) = 2
    /\ shown.best_model = models[1][1]

\* C2: the instruction contains the condition fragment exactly when the
\* condition is non-empty after trimming, the details fragment exactly when
\* the details are non-empty after trimming, and the fragments present
\* appear in the order base, condition, details, closing sentence.
C2_OptionalFragmentsFollowTrimmedFields ==
    pc = "generating" =>
        /\ Occurs(base_prompt, CondA) <=> (strip(request.condition) # <<>>)
        /\ Occurs(base_prompt, DetA) <=> (strip(request.details) # <<>>)
        /\ base_prompt[1] = BaseA
        /\ base_prompt[Len(base_prompt)] = Closing
        /\ Occurs(base_prompt, CondA) =>
              Position(base_prompt, BaseC) < Position(base_prompt, CondA)
        /\ Occurs(base_prompt, DetA) =>
              Position(base_prompt, BaseC) < Position(base_prompt, DetA)
        /\ (Occurs(base_prompt, CondA) /\ Occurs(base_prompt, DetA)) =>
              Position(base_prompt, CondA) < Position(base_prompt, DetA)

\* C3: when a model's generation raises, the error shown names the model
\* that failed, no best model is announced and no entries are delivered.
C3_ErrorNamesFailedModel ==
    shown.kind = "error" =>
        /\ Occurs(shown.message, model_name)
        /\ shown.best_model = None
        /\ shown.entries = <<>>

\* C4: a comparison that completes without error holds exactly one entry
\* per registered model name, none missing and none twice, and the best
\* model is one of those keys.
C4_OneEntryPerRegisteredModel ==
    shown.kind = "success" =>
        /\ Len(shown.entries) = Len(models)
        /\ Distinct(Keys(shown.entries))
        /\ KeySet(shown.entries) = RegisteredNames
        /\ KeySet(results) = RegisteredNames
        /\ Len(results) = Len(models)
        /\ Len(length_scores) = Len(models)
        /\ Len(clarity_scores) = Len(models)
        /\ shown.best_model \in KeySet(shown.entries)

\* A completed comparison whose entries hold different texts.
C4_Witness_ComparisonShown ==
    /\ shown.kind = "success"
    /\ Len(shown.entries) = Len(models)
    /\ results[1][2] # results[2][2]

\* The positions at which a word of the text starts, and the length of the
\* word starting there.
WordStarts(text) ==
    {i \in 1..Len(text) :
        /\ text[i] \notin Whitespace
        /\ (i = 1 \/ text[i - 1] \in Whitespace)}
WordLength(text, i) ==
    LET last == CHOOSE j \in i..Len(text) :
                   /\ \A k \in i..j : text[k] \notin Whitespace
                   /\ (j = Len(text) \/ text[j + 1] \in Whitespace)
    IN  last - i + 1

\* C5: evaluate_prompt returns the number of whitespace-delimited words,
\* the number of those longer than 3 characters, and their sum; the empty
\* text scores 0, 0, 0; scoring the same text again gives the same scores.
C5_ScoresCountWords ==
    scores # <<>> =>
        /\ scores[1] = Cardinality(WordStarts(prompt))
        /\ scores[2] = Cardinality({i \in WordStarts(prompt) : WordLength(prompt, i) > 3})
        /\ scores[3] = scores[1] + scores[2]
        /\ prompt = <<>> => scores = <<0, 0, 0>>
        /\ rescored # <<>> => rescored = scores

\* A text of a long and a short word, scored twice.
C5_Witness_LongAndShortWord ==
    /\ rescored # <<>>
    /\ scores = <<2, 1, 3>>

\* C6: an error raised during a comparison is caught and shown, the run
\* does not stop on it, and no step of the handler changes the registry.
C6_ErrorCaughtRegistryKept ==
    [][/\ pc \in {"loop", "generating", "display", "except"} =>
            /\ model_tokenizers' = model_tokenizers
            /\ model_objects' = model_objects
            /\ pc' # "crashed"
       /\ pc = "except" =>
            /\ pc' = "done"
            /\ shown'.kind = "error"
            /\ shown'.message = <<"Error: ", exc>>
            /\ KeySet(model_tokenizers') = RegisteredNames
            /\ KeySet(model_objects') = RegisteredNames]_vars

\* A comparison completed over all models after an earlier one failed.
C6_Witness_SuccessAfterFailure ==
    /\ failed_earlier
    /\ shown.kind = "success"
    /\ KeySet(results) = RegisteredNames

RegistryLoaded ==
    /\ KeySet(model_tokenizers) = RegisteredNames
    /\ KeySet(model_objects) = RegisteredNames

\* C7: no generation call is made before every registered tokenizer and
\* model is loaded; a run in which loading fails serves no request.
C7_LoadedBeforeServing ==
    /\ pc \in {"inputs", "button", "loop", "generating", "display", "except", "done"}
          => RegistryLoaded
    /\ gen_calls # <<>> => RegistryLoaded
    /\ pc = "crashed" =>
          /\ gen_calls = <<>>
          /\ results = <<>>
          /\ shown = NothingShown

\* The last model's generation call is in progress.
C7_Witness_Generating ==
    /\ pc = "generating"
    /\ Len(gen_calls) = Len(models)
    /\ RegistryLoaded

\* C8: once the registry is initialized every tokenizer has a padding
\* token: the end-of-sequence token when it was loaded without one, the
\* one it was loaded with otherwise; this stays so for the rest of the run.
C8_PadTokenSet ==
    pc \notin {"load_tokenizers", "pad_tokens", "crashed"} =>
        /\ KeySet(model_tokenizers) = RegisteredNames
        /\ \A i \in 1..Len(model_tokenizers) :
              LET tokenizer == model_tokenizers[i][2]
              IN  /\ tokenizer.pad_token # None
                  /\ tokenizer.pad_token =
                        IF tokenizer.pretrained_pad = None
                        THEN tokenizer.eos_token
                        ELSE tokenizer.pretrained_pad

\* A comparison shown by a run in which one tokenizer was loaded without a
\* padding token and another with one.
C8_Witness_BothKindsOfTokenizer ==
    /\ shown.kind = "success"
    /\ \E i, j \in 1..Len(model_tokenizers) :
          /\ model_tokenizers[i][2].pretrained_pad = None
          /\ model_tokenizers[j][2].pretrained_pad # None

\* C9 as stated: within one comparison the instruction is built once, not
\* once per model, and every generation call receives that same text.
C9_BuiltOnce ==
    /\ builds <= 1
    /\ \A i, j \in 1..Len(gen_calls) : gen_calls[i][2] = gen_calls[j][2]

\* C9 amended: the instruction is built once per generation call, and
\* every generation call of a comparison receives the same text.
C9_BuiltPerCallSameText ==
    /\ builds = Len(gen_calls)
    /\ \A i, j \in 1..Len(gen_calls) : gen_calls[i][2] = gen_calls[j][2]
    /\ pc = "generating" => gen_calls[Len(gen_calls)] = <<model_name, base_prompt>>

\* Every model has been called in a comparison that was shown.
C9_Witness_AllCalled ==
    /\ shown.kind = "success"
    /\ builds = Len(models)
    /\ Len(gen_calls) = Len(models)

\* C10: the models are called one after another in registration order, a
\* call starts only when the previous model's text is stored and scored,
\* at most one call is in progress, and the best model is selected only
\* after every registered model is scored.
C10_Sequential ==
    /\ Keys(results) = SubSeq(RegistrationOrder, 1, Len(results))
    /\ Keys(model_scores) = Keys(results)
    /\ Len(length_scores) = Len(results)
    /\ Len(clarity_scores) = Len(results)
    /\ [i \in 1..Len(gen_calls) |-> gen_calls[i][1]]
          = SubSeq(RegistrationOrder, 1, Len(gen_calls))
    /\ Len(gen_calls) - Len(results) \in {0, 1}
    /\ pc = "generating" => Len(gen_calls) = Len(results) + 1
    /\ pc \in {"loop", "display"} => Len(gen_calls) = Len(results)
    /\ best_model # None => KeySet(model_scores) = RegisteredNames

\* The second model's call is in progress after the first was stored.
C10_Witness_SecondCall ==
    /\ pc = "generating"
    /\ Len(results) = 1
    /\ model_name = models[2][1]

====
